---- MODULE Spec2Model ----
(***************************************************************************)
(* A model of generate_tracker.py: the MarkdownParser (parse, _parse_week, *)
(* _parse_day, _parse_dsa_section, _parse_system_design_section,           *)
(* _title_to_slug, _guess_difficulty), the HTMLGenerator, main, and the    *)
(* script of the generated page (progress, statistics, filters, export and *)
(* the sync with a remote document).                                       *)
(*                                                                         *)
(* A Python str is a sequence of characters; a character is a one-letter   *)
(* string.  The four emoji the regular expressions name are single code    *)
(* points and are written "BOOM" (U+1F4A5), "TARGET" (U+1F3AF), "PIN"      *)
(* (U+1F4CC) and "BRAIN" (U+1F9E0).  Every regular expression of the code  *)
(* is modelled by an operator that works on the characters.                *)
(***************************************************************************)
EXTENDS Integers, Sequences, FiniteSets, TLC

VARIABLES
    pc,            \* which step of the scenario has run
    content,       \* MarkdownParser.content
    weeks,         \* MarkdownParser.weeks
    returned,      \* what the last call of parse() returned
    calls,         \* how many times parse() has been called
    title,         \* the argument of _title_to_slug
    slug,          \* _title_to_slug(title)
    reslug,        \* _title_to_slug(slug)
    problem_num,   \* the argument of _guess_difficulty
    difficulty,    \* _guess_difficulty(problem_num)
    day_content,   \* the day section handed to _parse_day
    day,           \* the Day _parse_day returned
    sys_argv,      \* sys.argv of a run of main
    md_file,       \* the file the first argument names
    output_file,   \* leetcode_tracker.html in the working directory
    stdout,        \* what the run printed
    stderr,        \* the traceback of an exception nothing caught
    exit_status,   \* the exit status of the run
    page,          \* the page the browser shows: its week sections, its items
    checked,       \* the checked flag of each checkbox, in document order
    display,       \* the style.display of each item, in document order
    week_hidden,   \* whether each week section has the class hidden
    active_tab,    \* the id of the tab content with the class active
    body_class,    \* document.body.className
    filters,       \* the values of the search box and the filter selects
    stats,         \* the numbers updateStats wrote into the stat cards
    stats_timeouts,\* the calls of updateStats that showTab has scheduled
    csv,           \* the rows of the file exportToCSV offered last
    modal_display, \* the style.display of the GitHub modal
    sync_status,   \* className and text of the sync status element
    alerted,       \* the message of the last alert
    githubToken,   \* the script's variable githubToken
    gistId,        \* the script's variable gistId
    autoSyncInterval, \* the script's variable autoSyncInterval
    intervals,     \* the interval timers that are running
    localStorage,  \* the browser's local storage
    inflight,      \* the requests sent and not answered, with what awaits them
    gists,         \* the documents the remote service stores for the user
    event,         \* the event whose handler ran last
    totalDSA,      \* updateStats: the number of checkboxes counted
    completedDSA,  \* updateStats: the number of them that are checked
    dsaRate        \* updateStats: the completion rate shown

vars == <<pc, content, weeks, returned, calls, title, slug, reslug,
          problem_num, difficulty, day_content, day,
          sys_argv, md_file, output_file, stdout, stderr, exit_status,
          page, checked, display, week_hidden, active_tab, body_class, filters,
          stats, stats_timeouts, csv, modal_display, sync_status, alerted,
          githubToken, gistId, autoSyncInterval, intervals, localStorage,
          inflight, gists, event, totalDSA, completedDSA, dsaRate>>

(***************************************************************************)
(* Characters and the character classes of Python's re module.             *)
(***************************************************************************)
LowerLetters == <<"a","b","c","d","e","f","g","h","i","j","k","l","m",
                  "n","o","p","q","r","s","t","u","v","w","x","y","z">>
UpperLetters == <<"A","B","C","D","E","F","G","H","I","J","K","L","M",
                  "N","O","P","Q","R","S","T","U","V","W","X","Y","Z">>
Digits == {"0","1","2","3","4","5","6","7","8","9"}
Range(s) == {s[i] : i \in DOMAIN s}

\* \s
SpaceChars == {" ", "\t", "\n", "\r", "\f"}
\* \w
WordChars == Range(LowerLetters) \cup Range(UpperLetters) \cup Digits \cup {"_"}
\* \d
IsDigit(c) == c \in Digits
IsSpace(c) == c \in SpaceChars
IsWord(c) == c \in WordChars
IsUpper(c) == c \in Range(UpperLetters)

\* str.lower() on one character
LowerChar(c) ==
    IF IsUpper(c)
    THEN LowerLetters[CHOOSE i \in DOMAIN UpperLetters : UpperLetters[i] = c]
    ELSE c
\* str.lower()
Lower(s) == [i \in DOMAIN s |-> LowerChar(s[i])]

\* s[i..] starts with the literal lit
MatchAt(s, i, lit) ==
    /\ i >= 1
    /\ i + Len(lit) - 1 <= Len(s)
    /\ \A k \in DOMAIN lit : s[i + k - 1] = lit[k]

\* the position after the longest run of characters of the set cs from i
RunEnd(s, i, cs) ==
    LET stops == {j \in i..Len(s) : s[j] \notin cs} IN
    IF i > Len(s) THEN i
    ELSE IF stops = {} THEN Len(s) + 1
    ELSE CHOOSE j \in stops : \A k \in stops : j <= k

\* str.strip(chars): drops the leading and trailing characters of the set cs
Strip(s, cs) ==
    LET keep == {i \in DOMAIN s : s[i] \notin cs} IN
    IF keep = {} THEN <<>>
    ELSE LET lo == CHOOSE i \in keep : \A j \in keep : i <= j
             hi == CHOOSE i \in keep : \A j \in keep : j <= i
         IN SubSeq(s, lo, hi)
\* str.strip()
StripSpace(s) == Strip(s, SpaceChars)

(***************************************************************************)
(* _title_to_slug                                                          *)
(***************************************************************************)
\* [-\s]
SlugSeps == {"-"} \cup SpaceChars

\* re.sub(r'[^\w\s-]', '', s)
RemoveNonSlugChars(s) == SelectSeq(s, LAMBDA c : IsWord(c) \/ IsSpace(c) \/ c = "-")

\* re.sub(r'[-\s]+', '-', s): every maximal run of hyphens and whitespace
\* becomes one hyphen
RECURSIVE CollapseFrom(_, _)
CollapseFrom(s, i) ==
    IF i > Len(s) THEN <<>>
    ELSE IF s[i] \in SlugSeps
         THEN <<"-">> \o CollapseFrom(s, RunEnd(s, i, SlugSeps))
         ELSE <<s[i]>> \o CollapseFrom(s, i + 1)
CollapseSeparators(s) == CollapseFrom(s, 1)

\* a slug function that trims the hyphens before it collapses the runs
SlugTrimFirst(t) ==
    CollapseSeparators(Strip(RemoveNonSlugChars(Lower(t)), {"-"}))
\* a slug function that turns each separator character into a hyphen of
\* its own
SlugNoCollapse(t) ==
    Strip([i \in DOMAIN RemoveNonSlugChars(Lower(t)) |->
              IF RemoveNonSlugChars(Lower(t))[i] \in SlugSeps THEN "-"
              ELSE RemoveNonSlugChars(Lower(t))[i]], {"-"})

_title_to_slug(t) ==
    Strip(CollapseSeparators(RemoveNonSlugChars(Lower(t))), {"-"})

(***************************************************************************)
(* _guess_difficulty                                                       *)
(***************************************************************************)
easy_problems ==
    {1, 13, 20, 21, 26, 27, 35, 53, 58, 66, 70, 88, 104, 121, 125, 136, 141,
     155, 169, 206, 217, 242, 268, 283, 344, 349, 485, 509, 704, 724, 217,
     242, 268, 283, 344, 349, 485, 509, 704, 724, 232, 225, 682}
hard_problems ==
    {10, 23, 25, 30, 37, 42, 51, 72, 76, 84, 124, 140, 212, 239, 295, 297,
     684, 685, 1135, 1489, 1579, 1697, 1349, 778}
EasyBelow == 50
HardAbove == 1000

\* a classifier that consults both fixed sets before the thresholds
GuessSetsFirst(n) ==
    IF n \in easy_problems THEN "easy"
    ELSE IF n \in hard_problems THEN "hard"
    ELSE IF n < EasyBelow THEN "easy"
    ELSE IF n > HardAbove THEN "hard"
    ELSE "medium"

_guess_difficulty(n) ==
    IF n \in easy_problems \/ n < EasyBelow THEN "easy"
    ELSE IF n \in hard_problems \/ n > HardAbove THEN "hard"
    ELSE "medium"

(***************************************************************************)
(* Helpers for the regular expressions of the section parsers.             *)
(***************************************************************************)
Min(S) == CHOOSE x \in S : \A y \in S : x <= y

\* the end of the line that holds position i: the position of the next "\n"
\* at or after i, or one past the end ('.' matches all but "\n")
LineEnd(s, i) ==
    LET nls == {j \in i..Len(s) : s[j] = "\n"} IN
    IF nls = {} THEN Len(s) + 1 ELSE Min(nls)

\* lit in s
Contains(s, lit) == \E p \in 1..Len(s) : MatchAt(s, p, lit)

DigitSeq == <<"0","1","2","3","4","5","6","7","8","9">>
DigitValue(c) == (CHOOSE i \in DOMAIN DigitSeq : DigitSeq[i] = c) - 1
\* int(digits)
RECURSIVE ToInt(_)
ToInt(ds) ==
    IF ds = <<>> THEN 0
    ELSE 10 * ToInt(SubSeq(ds, 1, Len(ds) - 1)) + DigitValue(ds[Len(ds)])
\* str(n) for n >= 0
RECURSIVE ToStr(_)
ToStr(n) ==
    IF n < 10 THEN <<DigitSeq[n + 1]>>
    ELSE ToStr(n \div 10) \o <<DigitSeq[(n % 10) + 1]>>

\* re.search(label (.+?)\*\*\n(.*?)(?=term|\Z), content, re.DOTALL): the
\* title is the shortest non-empty text up to a "**\n", the body runs to the
\* first terminator or to the end
TitleClose == <<"*","*","\n">>
SectionSearch(s, label, term) ==
    LET closes(p) == {q \in (p + Len(label) + 1)..Len(s) : MatchAt(s, q, TitleClose)}
        starts == {p \in 1..Len(s) : MatchAt(s, p, label) /\ closes(p) # {}}
    IN IF starts = {} THEN [found |-> FALSE, title |-> <<>>, body |-> <<>>]
       ELSE LET p == Min(starts)
                q == Min(closes(p))
                b == q + Len(TitleClose)
                ends == {r \in b..Len(s) : MatchAt(s, r, term)}
                r == IF ends = {} THEN Len(s) + 1 ELSE Min(ends)
            IN [found |-> TRUE,
                title |-> SubSeq(s, p + Len(label), q - 1),
                body |-> SubSeq(s, b, r - 1)]

\* re.findall(r'\* (.+)', s): the rest of the line after each "* " that has
\* at least one character after it, found left to right without overlap
BulletLit == <<"*"," ">>
RECURSIVE BulletsFrom(_, _)
BulletsFrom(s, i) ==
    LET hits == {p \in i..Len(s) : /\ MatchAt(s, p, BulletLit)
                                  /\ p + 2 <= Len(s)
                                  /\ s[p + 2] # "\n"}
    IN IF hits = {} THEN <<>>
       ELSE LET p == Min(hits)
                e == LineEnd(s, p + 2)
            IN <<SubSeq(s, p + 2, e - 1)>> \o BulletsFrom(s, e)
FindBullets(s) == BulletsFrom(s, 1)

\* [PIN TARGET]
GoalGlyphs == {"PIN", "TARGET"}
GoalLabel == <<" ","G","o","a","l",":">>
GoalWord == <<"G","o","a","l",":">>

\* re.search(r'[PIN TARGET] Goal: (.+)', s): group 1 of the leftmost match
GoalSearch(s) ==
    LET at(p) == /\ s[p] \in GoalGlyphs
                 /\ MatchAt(s, p + 1, GoalLabel \o <<" ">>)
                 /\ p + 8 <= Len(s)
                 /\ s[p + 8] # "\n"
        hits == {p \in 1..Len(s) : at(p)}
    IN IF hits = {} THEN [found |-> FALSE, text |-> <<>>]
       ELSE [found |-> TRUE,
             text |-> SubSeq(s, Min(hits) + 8, LineEnd(s, Min(hits) + 8) - 1)]

\* re.sub(r'\s*[PIN TARGET] Goal:.*', '', s): each match starts at a run of
\* whitespace that ends at a glyph followed by " Goal:", and runs to the end
\* of the line
RECURSIVE RemoveGoalFrom(_, _)
RemoveGoalFrom(s, i) ==
    LET glyphAt(p) == /\ RunEnd(s, p, SpaceChars) <= Len(s)
                      /\ s[RunEnd(s, p, SpaceChars)] \in GoalGlyphs
                      /\ MatchAt(s, RunEnd(s, p, SpaceChars) + 1, GoalLabel)
        hits == {p \in i..Len(s) : glyphAt(p)}
    IN IF hits = {} THEN SubSeq(s, i, Len(s))
       ELSE LET p == Min(hits)
                e == LineEnd(s, RunEnd(s, p, SpaceChars) + 1 + Len(GoalLabel))
            IN SubSeq(s, i, p - 1) \o RemoveGoalFrom(s, e)
RemoveGoal(s) == RemoveGoalFrom(s, 1)

\* re.match(r'LC (\d+): (.+)', s)
LcLit == <<"L","C"," ">>
LcMatch(s) ==
    LET d == Len(LcLit) + 1
        e == RunEnd(s, d, Digits)
    IN IF /\ MatchAt(s, 1, LcLit)
          /\ e > d
          /\ MatchAt(s, e, <<":", " ">>)
          /\ e + 2 <= Len(s)
          /\ s[e + 2] # "\n"
       THEN [found |-> TRUE,
             number |-> SubSeq(s, d, e - 1),
             title |-> SubSeq(s, e + 2, LineEnd(s, e + 2) - 1)]
       ELSE [found |-> FALSE, number |-> <<>>, title |-> <<>>]

(***************************************************************************)
(* _parse_dsa_section                                                      *)
(***************************************************************************)
UrlPrefix == <<"h","t","t","p","s",":","/","/","l","e","e","t","c","o","d","e",".","c","o","m","/","p","r","o","b","l","e","m","s","/">>

Problem(number, ptitle, pdifficulty, url) ==
    [number |-> number, title |-> ptitle, difficulty |-> pdifficulty, url |-> url]

\* lines 132-141: the Problem an item text becomes
ItemProblem(item_text) ==
    LET lc == LcMatch(item_text) IN
    IF lc.found
    THEN Problem(lc.number, lc.title, _guess_difficulty(ToInt(lc.number)),
                 UrlPrefix \o _title_to_slug(lc.title) \o <<"/">>)
    ELSE Problem(<<>>, item_text, "task", <<"#">>)

\* lines 119-141: the loop over the bullet items, from item k on, with the
\* goal and the problems found so far.  The goal part of an item is removed
\* (lines 128-130) only inside "if not goal".
RECURSIVE DsaLoop(_, _, _, _)
DsaLoop(items, k, goal, problems) ==
    IF k > Len(items) THEN [problems |-> problems, goal |-> goal]
    ELSE LET item_text == items[k] IN
         IF Contains(item_text, GoalWord) /\ goal = <<>>
         THEN LET goal_in_line == GoalSearch(item_text)
                  goal2 == IF goal_in_line.found
                           THEN StripSpace(goal_in_line.text) ELSE goal
                  rest == StripSpace(RemoveGoal(item_text))
              IN IF rest = <<>>
                 THEN DsaLoop(items, k + 1, goal2, problems)
                 ELSE DsaLoop(items, k + 1, goal2, Append(problems, ItemProblem(rest)))
         ELSE DsaLoop(items, k + 1, goal, Append(problems, ItemProblem(item_text)))

DsaLabel == <<"TARGET"," ","*","*","D","S","A",":"," ">>
DsaTerm == <<"BRAIN">>

\* the problems in the opposite order
DsaSectionReversed(c) ==
    LET m == SectionSearch(c, DsaLabel, DsaTerm)
        dsa_content == StripSpace(m.body)
        goal_match == GoalSearch(dsa_content)
        goal0 == IF goal_match.found THEN StripSpace(goal_match.text) ELSE <<>>
        out == DsaLoop(FindBullets(dsa_content), 1, goal0, <<>>)
    IN IF ~m.found THEN [title |-> <<>>, problems |-> <<>>, goal |-> <<>>]
       ELSE [title |-> StripSpace(m.title),
             problems |-> [k \in DOMAIN out.problems |->
                              out.problems[Len(out.problems) + 1 - k]],
             goal |-> out.goal]

_parse_dsa_section(c) ==
    LET m == SectionSearch(c, DsaLabel, DsaTerm)
        dsa_content == StripSpace(m.body)
        goal_match == GoalSearch(dsa_content)
        goal0 == IF goal_match.found THEN StripSpace(goal_match.text) ELSE <<>>
        out == DsaLoop(FindBullets(dsa_content), 1, goal0, <<>>)
    IN IF ~m.found THEN [title |-> <<>>, problems |-> <<>>, goal |-> <<>>]
       ELSE [title |-> StripSpace(m.title), problems |-> out.problems, goal |-> out.goal]

(***************************************************************************)
(* _parse_system_design_section                                            *)
(***************************************************************************)
SdLabel == <<"BRAIN"," ","*","*","S","Y","S","T","E","M"," ","D","E","S","I","G","N",":"," ">>
SdTerm == <<"-","-","-">>
BonusLit == <<"B","o","n","u","s",":">>

Task(description, is_bonus) == [description |-> description, is_bonus |-> is_bonus]

\* the bonus flag read anywhere in the text instead of at its start
SdSectionBonusAnywhere(c) ==
    LET m == SectionSearch(c, SdLabel, SdTerm)
        task_matches == FindBullets(StripSpace(m.body))
    IN IF ~m.found THEN [title |-> <<>>, tasks |-> <<>>]
       ELSE [title |-> StripSpace(m.title),
             tasks |-> [k \in DOMAIN task_matches |->
                           Task(task_matches[k], Contains(task_matches[k], BonusLit))]]

_parse_system_design_section(c) ==
    LET m == SectionSearch(c, SdLabel, SdTerm)
        task_matches == FindBullets(StripSpace(m.body))
    IN IF ~m.found THEN [title |-> <<>>, tasks |-> <<>>]
       ELSE [title |-> StripSpace(m.title),
             tasks |-> [k \in DOMAIN task_matches |->
                           Task(task_matches[k], MatchAt(task_matches[k], 1, BonusLit))]]

(***************************************************************************)
(* _parse_day                                                              *)
(***************************************************************************)
DayLit == <<"D","a","y"," ">>

Day(number, dtitle, dsa, sd) ==
    [number |-> number, title |-> dtitle,
     dsa_title |-> dsa.title, dsa_problems |-> dsa.problems, dsa_goal |-> dsa.goal,
     system_design_title |-> sd.title, system_design_tasks |-> sd.tasks]

_parse_day(global_day_num, c) ==
    Day(global_day_num, DayLit \o ToStr(global_day_num),
        _parse_dsa_section(c), _parse_system_design_section(c))

(***************************************************************************)
(* _parse_week and parse                                                   *)
(***************************************************************************)
WeekLit == <<"#","#"," ","W","E","E","K"," ">>
DayMarkerLit == <<"*","*","BOOM"," ","M","A","C","H","I","N","E"," ","M","O","D","E",":"," ","D","A","Y"," ">>
DaysPerWeek == 7

\* r'^## WEEK \d+:' with re.MULTILINE matched at p: the position after the
\* match, or 0 when there is no match at p
WeekMarkerEnd(s, p) ==
    LET d == p + Len(WeekLit)
        e == RunEnd(s, d, Digits)
    IN IF /\ (p = 1 \/ s[p - 1] = "\n")
          /\ MatchAt(s, p, WeekLit)
          /\ e > d
          /\ e <= Len(s)
          /\ s[e] = ":"
       THEN e + 1 ELSE 0

\* a day-header pattern whose colon is optional
DayMarkerLitNoColon == <<"*","*","BOOM"," ","M","A","C","H","I","N","E"," ","M","O","D","E"," ","D","A","Y"," ">>
DayMarkerEndOptionalColon(s, p) ==
    LET lit == IF MatchAt(s, p, DayMarkerLit) THEN DayMarkerLit ELSE DayMarkerLitNoColon
        d == p + Len(lit)
        e == RunEnd(s, d, Digits)
    IN IF MatchAt(s, p, lit) /\ e > d THEN e ELSE 0

\* r'\*\*BOOM MACHINE MODE: DAY \d+' matched at p: the position after the
\* match, or 0
DayMarkerEnd(s, p) ==
    LET d == p + Len(DayMarkerLit)
        e == RunEnd(s, d, Digits)
    IN IF MatchAt(s, p, DayMarkerLit) /\ e > d THEN e ELSE 0

\* re.split(r'^## WEEK \d+:', s, flags=re.MULTILINE), from position i
RECURSIVE SplitWeeksFrom(_, _)
SplitWeeksFrom(s, i) ==
    LET hits == {p \in i..Len(s) : WeekMarkerEnd(s, p) > 0} IN
    IF hits = {} THEN <<SubSeq(s, i, Len(s))>>
    ELSE <<SubSeq(s, i, Min(hits) - 1)>>
         \o SplitWeeksFrom(s, WeekMarkerEnd(s, Min(hits)))

\* re.split(r'\*\*BOOM MACHINE MODE: DAY \d+', s), from position i
RECURSIVE SplitDaysFrom(_, _)
SplitDaysFrom(s, i) ==
    LET hits == {p \in i..Len(s) : DayMarkerEnd(s, p) > 0} IN
    IF hits = {} THEN <<SubSeq(s, i, Len(s))>>
    ELSE <<SubSeq(s, i, Min(hits) - 1)>>
         \o SplitDaysFrom(s, DayMarkerEnd(s, Min(hits)))

\* lines 64-69: re.search(r'(.+?)\s*\(', title_line) takes the shortest
\* non-empty prefix that whitespace and a "(" follow; without a match the
\* whole line is the title
WeekTitle(title_line) ==
    LET ks == {k \in 1..Len(title_line) :
                  /\ \A j \in 1..k : title_line[j] # "\n"
                  /\ RunEnd(title_line, k + 1, SpaceChars) <= Len(title_line)
                  /\ title_line[RunEnd(title_line, k + 1, SpaceChars)] = "("}
    IN IF ks = {} THEN title_line
       ELSE StripSpace(SubSeq(title_line, 1, Min(ks)))

\* content.strip().split('\n')[0]
FirstLine(c) == SubSeq(StripSpace(c), 1, LineEnd(StripSpace(c), 1) - 1)

\* "if day:" (line 79) and "if week:" (line 54): an instance of a dataclass
\* that defines neither __bool__ nor __len__ is true
DayIsTrue(d) == TRUE
WeekIsTrue(w) == TRUE

Week(number, wtitle, days) == [number |-> number, title |-> wtitle, days |-> days]

\* a day number that takes the index i as counted from 1
GlobalDayNumFromIndex(week_num, i) == (week_num - 1) * DaysPerWeek + i
\* line 77
GlobalDayNum(week_num, i) == (week_num - 1) * DaysPerWeek + (i + 1)

_parse_week(week_num, c) ==
    LET day_sections == Tail(SplitDaysFrom(c, 1))
        parsed == [i \in DOMAIN day_sections |->
                      _parse_day(GlobalDayNum(week_num, i - 1), day_sections[i])]
    IN Week(week_num, WeekTitle(StripSpace(FirstLine(c))), SelectSeq(parsed, DayIsTrue))

\* lines 50-55: the Weeks one call of parse() appends to self.weeks
ParsedWeeks(c) ==
    LET week_sections == Tail(SplitWeeksFrom(c, 1))
        parsed == [i \in DOMAIN week_sections |-> _parse_week(i, week_sections[i])]
    IN SelectSeq(parsed, WeekIsTrue)

(***************************************************************************)
(* HTMLGenerator.  The generated markup is kept as the element tree it     *)
(* spells: a week section holds its header and its day sections, a day     *)
(* section its header and its sections, a section its title, its items and *)
(* its goal line.  Concatenating markup is concatenating element lists.    *)
(***************************************************************************)
\* the concatenation of the strings ss
RECURSIVE Concat(_)
Concat(ss) == IF ss = <<>> THEN <<>> ELSE Head(ss) \o Concat(Tail(ss))

WatchLit == <<"W","a","t","c","h",":">>
LcPrefix == <<"L","C"," ">>
ColonSpace == <<":"," ">>
Dash == <<" ","-"," ">>
WeekPrefix == <<"W","e","e","k"," ">>

\* <input type="checkbox" class=... data-type=...>
Checkbox(classes, data_type) ==
    [type |-> "checkbox", class |-> classes, data_type |-> data_type]
\* <div class="problem-item"> or <div class="task-item"> with its checkbox,
\* its text, and the link target and difficulty badge of a problem
Item(class, input, text, href, badge) ==
    [class |-> class, input |-> input, text |-> text, href |-> href, difficulty |-> badge]

\* the DSA items of a day without the entries that have no problem number
DsaHtmlProblemsOnly(d) ==
    LET numbered == SelectSeq(d.dsa_problems, LAMBDA problem : problem.number # <<>>) IN
    [k \in DOMAIN numbered |->
        Item("problem-item", Checkbox({"problem-checkbox"}, ""),
             LcPrefix \o numbered[k].number \o ColonSpace \o numbered[k].title,
             numbered[k].url, numbered[k].difficulty)]

\* lines 1451-1467: the items of the DSA problems of a day
dsa_html(d) ==
    [k \in DOMAIN d.dsa_problems |->
        LET problem == d.dsa_problems[k] IN
        IF problem.number # <<>>
        THEN Item("problem-item", Checkbox({"problem-checkbox"}, ""),
                  LcPrefix \o problem.number \o ColonSpace \o problem.title,
                  problem.url, problem.difficulty)
        ELSE Item("task-item", Checkbox({"task-checkbox", "dsa-task"}, ""),
                  problem.title, <<>>, "")]

\* line 1471
task_type(task) ==
    IF Contains(task.description, WatchLit) THEN "watch"
    ELSE IF task.is_bonus THEN "bonus" ELSE "design"

\* lines 1469-1477: the items of the system design tasks of a day
tasks_html(d) ==
    [k \in DOMAIN d.system_design_tasks |->
        LET task == d.system_design_tasks[k] IN
        Item("task-item", Checkbox({"task-checkbox", "system-task"}, task_type(task)),
             task.description, <<>>, "")]

\* the goal line of a DSA section: there when the day has a goal
GoalText(d) == IF d.dsa_goal # <<>> THEN <<<<"PIN", " ">> \o d.dsa_goal>> ELSE <<>>

Section(classes, stitle, items, goal) ==
    [class |-> classes, title |-> stitle, items |-> items, goal |-> goal]
DsaSection(d, width) ==
    Section({"section", "dsa-section"} \cup width,
            <<"TARGET", " ">> \o d.dsa_title, dsa_html(d), GoalText(d))
SystemSection(d, width) ==
    Section({"section", "system-section"} \cup width,
            <<"BRAIN", " ">> \o d.system_design_title, tasks_html(d), <<>>)

DaySection(view, header, sections) ==
    [class |-> {"day-section", "day-collapsed", view}, header |-> header,
     sections |-> sections]

\* a day rendered as its combined view alone
DayHtmlCombinedOnly(week_num, d) ==
    <<DaySection("overview-content", d.title, <<DsaSection(d, {}), SystemSection(d, {})>>)>>

\* lines 1448-1531: the combined view, the DSA view and the system design
\* view of a day
_generate_day_html(week_num, d) ==
    LET combined_html ==
            DaySection("overview-content", d.title,
                       <<DsaSection(d, {}), SystemSection(d, {})>>)
        dsa_only_html ==
            DaySection("dsa-content", d.title \o Dash \o d.dsa_title,
                       <<DsaSection(d, {"full-width"})>>)
        system_only_html ==
            DaySection("system-content", d.title \o Dash \o d.system_design_title,
                       <<SystemSection(d, {"full-width"})>>)
    IN <<combined_html, dsa_only_html, system_only_html>>

\* lines 1431-1446
_generate_week_html(week) ==
    LET days_html == Concat([k \in DOMAIN week.days |->
                                _generate_day_html(week.number, week.days[k])])
    IN <<[class |-> {"week-section"}, data_week |-> ToStr(week.number),
          header |-> WeekPrefix \o ToStr(week.number) \o ColonSpace \o week.title,
          days |-> days_html]>>

\* lines 194-199 and 1429: the template with the week sections in the place
\* of its one placeholder
generate_html(ws) ==
    LET weeks_html == Concat([k \in DOMAIN ws |-> _generate_week_html(ws[k])])
    IN [weeks_content |-> weeks_html]

(***************************************************************************)
(* The script of the generated page.  The page is the element tree of      *)
(* generate_html; what its handlers change is kept beside it: the checked  *)
(* flag and the style.display of each item, the hidden class of each week  *)
(* section, the active tab, the numbers of the stat cards.  JavaScript     *)
(* runs one handler at a time: an async function runs up to its next       *)
(* await in one step, and goes on when the awaited request is answered.    *)
(***************************************************************************)
null == "null"

\* the items of the page in document order, each with the week section and
\* the day section it stands in; the k-th item holds the k-th checkbox of
\* querySelectorAll('.problem-checkbox, .task-checkbox')
PageItems(wc) ==
    Concat([w \in DOMAIN wc |->
      Concat([j \in DOMAIN wc[w].days |->
        Concat([n \in DOMAIN wc[w].days[j].sections |->
          [i \in DOMAIN wc[w].days[j].sections[n].items |->
            [week |-> w, day |-> j, item |-> wc[w].days[j].sections[n].items[i]]]])])])

\* the day section of an item has the class
InView(wc, it, view) == view \in wc[it.week].days[it.day].class
\* the length of a NodeList: the number of elements a selector matches
Count(S) == Cardinality(S)

\* the counts <<completed, total>> up to 400 items for which the double
\* arithmetic of completed / total * 100 yields a value just below the
\* half the exact quotient reaches (57.49999999999999 for 23 of 40)
HalvesRoundedDown ==
    {<<23, 40>>, <<46, 80>>, <<69, 120>>, <<92, 160>>, <<29, 200>>,
     <<57, 200>>, <<113, 200>>, <<115, 200>>, <<138, 240>>, <<161,
     280>>, <<184, 320>>, <<207, 360>>, <<58, 400>>, <<114, 400>>,
     <<226, 400>>, <<230, 400>>}
\* Math.round(completed / total * 100), or 0 for no entries: the nearest
\* integer, a half rounded up
Rate(completed, total) ==
    IF total > 0
    THEN IF <<completed, total>> \in HalvesRoundedDown
         THEN (200 * completed + total) \div (2 * total) - 1
         ELSE (200 * completed + total) \div (2 * total)
    ELSE 0

\* updateStats(): lines 1207-1272, the numbers it writes into the stat
\* cards, counted in the day sections of the active tab
StatsOf(wc, items, chk, tab) ==
    LET view == IF tab = "overview-tab" THEN "overview-content"
                ELSE IF tab = "dsa-tab" THEN "dsa-content"
                ELSE "system-content"
        active == {k \in DOMAIN items : InView(wc, items[k], view)}
        dsa == {k \in active : \/ "problem-checkbox" \in items[k].item.input.class
                               \/ "dsa-task" \in items[k].item.input.class}
        sd == {k \in active : "system-task" \in items[k].item.input.class}
        ofType(t) == Count({k \in sd : items[k].item.input.data_type = t})
        badge(b) == Count({k \in active : items[k].item.difficulty = b})
        done(S) == Count({k \in S : chk[k]})
    IN [total_problems |-> Count(dsa), completed_problems |-> done(dsa),
        total_tasks |-> Count(sd), completed_tasks |-> done(sd),
        dsa_rate |-> Rate(done(dsa), Count(dsa)),
        sd_rate |-> Rate(done(sd), Count(sd)),
        easy |-> badge("easy"), medium |-> badge("medium"), hard |-> badge("hard"),
        watch |-> ofType("watch"), design |-> ofType("design"), bonus |-> ofType("bonus")]

\* the property names of data.checkboxes: the indexes as strings
Keys(n) == {ToStr(i) : i \in 0..(n - 1)}
\* getCurrentProgress(): lines 1326-1337 (the time stamp is left out)
getCurrentProgress(chk) ==
    [checkboxes |-> [key \in Keys(Len(chk)) |-> chk[ToInt(key) + 1]]]
\* JSON.stringify(data): the members in the order of their keys
JSONstringify(data) ==
    LET n == Cardinality(DOMAIN data.checkboxes) IN
    [i \in 1..n |-> <<ToStr(i - 1), data.checkboxes[ToStr(i - 1)]>>]
\* JSON.parse(text)
JSONparse(text) ==
    [checkboxes |-> [key \in {text[i][1] : i \in DOMAIN text} |->
                        text[CHOOSE i \in DOMAIN text : text[i][1] = key][2]]]
\* lines 1344-1348: the checkboxes after a saved blob was applied; a
\* checkbox the blob does not name keeps its state
Restore(chk, data) ==
    [k \in DOMAIN chk |->
        IF ToStr(k - 1) \in DOMAIN data.checkboxes
        THEN data.checkboxes[ToStr(k - 1)] ELSE chk[k]]

\* localStorage: a key that is not stored reads null
getItem(storage, key) == IF key \in DOMAIN storage THEN storage[key] ELSE null
setItem(storage, key, value) ==
    [k \in DOMAIN storage \cup {key} |-> IF k = key THEN value ELSE storage[k]]
hasItem(storage, key) == key \in DOMAIN storage

\* the values of the search box and of the three filter selects
Filters(search, difficultyFilter, statusFilter, weekFilter) ==
    [search |-> search, difficulty |-> difficultyFilter, status |-> statusFilter,
     week |-> weekFilter]
NoFilters == Filters(<<>>, "", "", <<>>)

\* lines 1284-1287: the week filter names another week
WeekFilteredOut(wc, w, f) == f.week # <<>> /\ wc[w].data_week # f.week
\* lines 1290-1321: whether filterContent shows the item
ItemVisible(it, isCompleted, f) ==
    /\ f.search # <<>> => Contains(Lower(it.text), Lower(f.search))
    /\ IF it.class = "problem-item"
       THEN f.difficulty # "" => it.difficulty = f.difficulty
       ELSE ~(f.difficulty # "" /\ f.difficulty # "task")
    /\ f.status = "completed" => isCompleted
    /\ f.status = "pending" => ~isCompleted
\* filterContent(): lines 1274-1324, the style.display of the items and the
\* hidden class of the week sections after it ran
FilteredDisplay(wc, items, chk, disp, f) ==
    [k \in DOMAIN items |->
        IF WeekFilteredOut(wc, items[k].week, f) THEN disp[k]
        ELSE IF ItemVisible(items[k].item, chk[k], f) THEN "flex" ELSE "none"]
FilteredHidden(wc, items, chk, f) ==
    [w \in DOMAIN wc |->
        IF WeekFilteredOut(wc, w, f) THEN TRUE
        ELSE ~\E k \in DOMAIN items :
                 items[k].week = w /\ ItemVisible(items[k].item, chk[k], f)]

\* textContent.trim() of a week header and of a day header: the text of the
\* two spans and the white space between them
Spaces(n) == [i \in 1..n |-> " "]
WeekHeaderText(ws) == ws.header \o <<"\n">> \o Spaces(16) \o <<"DOWN">>
DayHeaderText(ds) == ds.header \o <<"\n">> \o Spaces(24) \o <<"RIGHT">>
\* lines 1368-1377 and 1385-1393: the cells of the row of an item
CsvRow(wc, e, isChecked) ==
    [week |-> WeekHeaderText(wc[e.week]),
     day |-> DayHeaderText(wc[e.week].days[e.day]),
     type |-> IF e.item.class = "problem-item" THEN "LeetCode Problem" ELSE "Task",
     title |-> e.item.text,
     difficulty |-> IF e.item.class = "problem-item" THEN e.item.difficulty ELSE "Task",
     completed |-> IF isChecked THEN "Yes" ELSE "No",
     url |-> e.item.href]
CsvHeader == <<"Week", "Day", "Type", "Title", "Difficulty", "Completed", "URL">>
\* the positions of the items of a day section with the class, in order
RECURSIVE ItemsWithClass(_, _, _, _, _)
ItemsWithClass(items, w, j, class, k) ==
    IF k > Len(items) THEN <<>>
    ELSE (IF items[k].week = w /\ items[k].day = j /\ items[k].item.class = class
          THEN <<k>> ELSE <<>>) \o ItemsWithClass(items, w, j, class, k + 1)
\* exportToCSV(): lines 1354-1409, the rows after the header row: for each
\* week section and each of its day sections, the problem items and then
\* the task items.  (Each cell is written in double quotes, the cells of a
\* row are joined by commas and the rows by line breaks.)
ExportRows(wc, items, chk) ==
    LET row(k) == CsvRow(wc, items[k], chk[k])
        rows(ks) == [n \in DOMAIN ks |-> row(ks[n])]
    IN Concat([w \in DOMAIN wc |->
         Concat([j \in DOMAIN wc[w].days |->
            rows(ItemsWithClass(items, w, j, "problem-item", 1))
            \o rows(ItemsWithClass(items, w, j, "task-item", 1))])])

(***************************************************************************)
(* The scenarios.  Each specification draws the input of one entry point   *)
(* from a bounded set and applies the code to it; the variables of the     *)
(* other entry points stay at their initial values.                        *)
(***************************************************************************)
MaxTitleLen == 4
MaxProblemNum == 1700
MaxDayLines == 3
MaxPlanPieces == 4
MaxDaysInWeek == 8
MaxParseCalls == 2
MaxMainPieces == 4
MaxInFlight == 2
MaxTimeouts == 1
MaxToggled == 1
MaxRemainderLen == 3
MaxGists == 2
MaxIntervals == 2
MaxCounted == 201

\* the strings over the characters cs of length at most n
Strings(cs, n) == UNION {[1..k -> cs] : k \in 0..n}

ParserIdle == content = <<>> /\ weeks = <<>> /\ returned = <<>> /\ calls = 0
SlugIdle == title = <<>> /\ slug = <<>> /\ reslug = <<>>
DifficultyIdle == problem_num = 0 /\ difficulty = ""
DayIdle == day_content = <<>> /\ day = <<>>
MainIdle ==
    /\ sys_argv = <<>> /\ md_file = [state |-> "missing", content |-> <<>>]
    /\ output_file = [writable |-> TRUE, written |-> FALSE, content |-> generate_html(<<>>)]
    /\ stdout = <<>> /\ stderr = <<>> /\ exit_status = 0
\* the page as the template has it (lines 786-979): the overview tab active,
\* no filter set, the modal closed, the sync status "Offline"
Offline == [className |-> "sync-status sync-disconnected", innerHTML |-> "Offline"]
FreshDom(wc) ==
    /\ page = [week_sections |-> wc, items |-> PageItems(wc)]
    /\ checked = [k \in DOMAIN page.items |-> FALSE]
    /\ display = [k \in DOMAIN page.items |-> ""]
    /\ week_hidden = [w \in DOMAIN wc |-> FALSE]
    /\ active_tab = "overview-tab" /\ body_class = "content-overview"
    /\ filters = NoFilters
    /\ stats = StatsOf(<<>>, <<>>, <<>>, "overview-tab")
    /\ stats_timeouts = 0
    /\ csv = [header |-> <<>>, rows |-> <<>>]
    /\ modal_display = "none" /\ sync_status = Offline /\ alerted = ""
    /\ autoSyncInterval = 0 /\ intervals = {}
    /\ inflight = <<>>
    /\ event = "load"
RateIdle == totalDSA = 0 /\ completedDSA = 0 /\ dsaRate = 0
PageIdle ==
    /\ FreshDom(<<>>)
    /\ githubToken = null /\ gistId = null
    /\ localStorage = <<>>
    /\ gists = <<>>

parserVars == <<content, weeks, returned, calls>>
slugVars == <<title, slug, reslug>>
difficultyVars == <<problem_num, difficulty>>
dayVars == <<day_content, day>>
mainVars == <<sys_argv, md_file, output_file, stdout, stderr, exit_status>>
domVars == <<checked, display, week_hidden, active_tab, body_class, filters, stats,
             stats_timeouts, csv>>
syncVars == <<modal_display, sync_status, alerted, githubToken, gistId,
              autoSyncInterval, intervals, inflight, gists>>
rateVars == <<totalDSA, completedDSA, dsaRate>>
pageVars == <<page, domVars, syncVars, localStorage, event, rateVars>>
otherVars == <<parserVars, slugVars, difficultyVars, dayVars, mainVars, rateVars>>

\* ---- _title_to_slug applied to a title, and to its own result ----
TitleChars == {"a", "A", "1", "_", "-", " ", "!"}

InitSlug ==
    /\ pc = "title"
    /\ title \in Strings(TitleChars, MaxTitleLen)
    /\ slug = <<>> /\ reslug = <<>>
    /\ ParserIdle /\ DifficultyIdle /\ DayIdle /\ MainIdle /\ RateIdle /\ PageIdle

Slugify ==
    /\ pc = "title"
    /\ slug' = _title_to_slug(title)
    /\ pc' = "slug"
    /\ UNCHANGED <<title, reslug, parserVars, difficultyVars, dayVars, mainVars, pageVars>>

Reslugify ==
    /\ pc = "slug"
    /\ reslug' = _title_to_slug(slug)
    /\ pc' = "reslug"
    /\ UNCHANGED <<title, slug, parserVars, difficultyVars, dayVars, mainVars, pageVars>>

NextSlug == Slugify \/ Reslugify
SpecSlug == InitSlug /\ [][NextSlug]_vars

\* ---- _guess_difficulty applied to a problem number ----
InitDifficulty ==
    /\ pc = "num"
    /\ problem_num \in 0..MaxProblemNum
    /\ difficulty = ""
    /\ ParserIdle /\ SlugIdle /\ DayIdle /\ MainIdle /\ RateIdle /\ PageIdle

GuessDifficulty ==
    /\ pc = "num"
    /\ difficulty' = _guess_difficulty(problem_num)
    /\ pc' = "guessed"
    /\ UNCHANGED <<problem_num, parserVars, slugVars, dayVars, mainVars, pageVars>>

NextDifficulty == GuessDifficulty
SpecDifficulty == InitDifficulty /\ [][NextDifficulty]_vars

\* ---- _parse_day applied to a day section ----
\* the day sections are built from these lines, in any order
DsaHeaderLine == <<"TARGET"," ","*","*","D","S","A",":"," ","A","r","r","a","y","s","*","*","\n">>
Lc42Line == <<"*"," ","L","C"," ","4","2",":"," ","R","e","v","e","r","s","e"," ","L","i","n","k","e","d"," ","L","i","s","t","\n">>
LcGoalLine == <<"*"," ","L","C"," ","1",":"," ","T","w","o"," ","S","u","m"," ","PIN"," ","G","o","a","l",":"," ","W","a","r","m"," ","u","p","\n">>
PinGoalLine == <<"*"," ","PIN"," ","G","o","a","l",":"," ","M","a","s","t","e","r"," ","i","t","\n">>
TargetGoalLine == <<"*"," ","TARGET"," ","G","o","a","l",":"," ","B","e"," ","f","a","s","t","\n">>
TaskLine == <<"*"," ","R","e","v","i","e","w"," ","n","o","t","e","s","\n">>
SdHeaderLine == <<"BRAIN"," ","*","*","S","Y","S","T","E","M"," ","D","E","S","I","G","N",":"," ","C","a","c","h","i","n","g","*","*","\n">>
BonusLine == <<"*"," ","B","o","n","u","s",":"," ","R","e","a","d","\n">>
RuleLine == <<"-","-","-","\n">>
BareGoalLine == <<"*"," ","PIN"," ","G","o","a","l",":","\n">>
LateBonusLine == <<"*"," ","N","o"," ","B","o","n","u","s",":"," ","y","e","t","\n">>
DayLines == {DsaHeaderLine, Lc42Line, LcGoalLine, PinGoalLine, TargetGoalLine,
             TaskLine, SdHeaderLine, BonusLine, RuleLine, BareGoalLine,
             LateBonusLine}

InitDay ==
    /\ pc = "section"
    /\ \E ls \in Strings(DayLines, MaxDayLines) : day_content = Concat(ls)
    /\ day = <<>>
    /\ ParserIdle /\ SlugIdle /\ DifficultyIdle /\ MainIdle /\ RateIdle /\ PageIdle

ParseDay ==
    /\ pc = "section"
    /\ day' = _parse_day(1, day_content)
    /\ pc' = "day"
    /\ UNCHANGED <<day_content, parserVars, slugVars, difficultyVars, mainVars, pageVars>>

NextDay == ParseDay
SpecDay == InitDay /\ [][NextDay]_vars

\* ---- MarkdownParser(content).parse() ----
\* the plans are built from these pieces, in any order
WeekHeader == <<"#","#"," ","W","E","E","K"," ","1",":"," ","A","r","r","a","y","s"," ","(","J","a","n"," ","1",")","\n">>
IndentedWeekHeader == <<" ","#","#"," ","W","E","E","K"," ","2",":"," ","T","r","e","e","s","\n">>
DayHeader == <<"*","*","BOOM"," ","M","A","C","H","I","N","E"," ","M","O","D","E",":"," ","D","A","Y"," ","1","*","*","\n">>
BrokenDayHeader == <<"*","*","BOOM"," ","M","A","C","H","I","N","E"," ","M","O","D","E"," ","D","A","Y"," ","2","*","*","\n">>
DsaBlock == <<"TARGET"," ","*","*","D","S","A",":"," ","A","r","r","a","y","s","*","*","\n","*"," ","L","C"," ","1",":"," ","T","w","o"," ","S","u","m","\n">>
PlanPieces == {WeekHeader, IndentedWeekHeader, DayHeader, BrokenDayHeader, DsaBlock}

\* n copies of s
RECURSIVE Repeat(_, _)
Repeat(s, n) == IF n = 0 THEN <<>> ELSE s \o Repeat(s, n - 1)

\* two weeks of j and k days
LongPlans ==
    {WeekHeader \o Repeat(DayHeader, j) \o WeekHeader \o Repeat(DayHeader, k) :
        j \in 0..MaxDaysInWeek, k \in 0..MaxDaysInWeek}

Init ==
    /\ pc = "parser"
    /\ \/ \E ps \in Strings(PlanPieces, MaxPlanPieces) : content = Concat(ps)
       \/ content \in LongPlans
    /\ weeks = <<>>
    /\ returned = <<>>
    /\ calls = 0
    /\ SlugIdle /\ DifficultyIdle /\ DayIdle /\ MainIdle /\ RateIdle /\ PageIdle

\* parse(): lines 46-57
Parse ==
    /\ pc = "parser"
    /\ calls < MaxParseCalls
    /\ weeks' = weeks \o ParsedWeeks(content)
    /\ returned' = weeks'
    /\ calls' = calls + 1
    /\ UNCHANGED <<pc, content, slugVars, difficultyVars, dayVars, mainVars, pageVars>>

Next == Parse
Spec == Init /\ [][Next]_vars

\* ---- parse() of a plan of one week: the week-header line ----
\* the plan is the marker of week 1, the rest of its line, and the lines
\* after it
WeekMarker == <<"#","#"," ","W","E","E","K"," ","1",":">>
RemainderChars == {"A", " ", "(", ")"}
IntroLine == <<"I","n","t","r","o","\n">>
LinesAfterHeader == {<<>>, IntroLine, DayHeader, <<"\n">> \o DayHeader}
InitWeek ==
    /\ pc = "parser"
    /\ \E remainder \in Strings(RemainderChars, MaxRemainderLen) :
       \E rest \in LinesAfterHeader :
           content = WeekMarker \o remainder \o <<"\n">> \o rest
    /\ weeks = <<>>
    /\ returned = <<>>
    /\ calls = 0
    /\ SlugIdle /\ DifficultyIdle /\ DayIdle /\ MainIdle /\ RateIdle /\ PageIdle
NextWeek == Parse
SpecWeek == InitWeek /\ [][NextWeek]_vars


\* ---- main ----
\* the plan files are built from these pieces, in any order
SdBlock == <<"BRAIN"," ","*","*","S","Y","S","T","E","M"," ","D","E","S","I","G","N",":"," ","C","a","c","h","i","n","g","*","*","\n","*"," ","W","a","t","c","h",":"," ","I","n","t","r","o","\n","*"," ","B","o","n","u","s",":"," ","R","e","a","d","\n">>
MixedDay == <<"*","*","BOOM"," ","M","A","C","H","I","N","E"," ","M","O","D","E",":"," ","D","A","Y"," ","1","*","*","\n","TARGET"," ","*","*","D","S","A",":"," ","A","r","r","a","y","s","*","*","\n","*"," ","L","C"," ","1",":"," ","T","w","o"," ","S","u","m","\n","*"," ","R","e","v","i","e","w"," ","n","o","t","e","s","\n","BRAIN"," ","*","*","S","Y","S","T","E","M"," ","D","E","S","I","G","N",":"," ","C","a","c","h","i","n","g","*","*","\n","*"," ","D","e","s","i","g","n"," ","a"," ","c","a","c","h","e","\n","-","-","-","\n">>
BonusWatchBlock == <<"BRAIN"," ","*","*","S","Y","S","T","E","M"," ","D","E","S","I","G","N",":"," ","T","a","l","k","s","*","*","\n","*"," ","B","o","n","u","s",":"," ","W","a","t","c","h",":"," ","T","a","l","k","\n">>
MainPieces == {WeekHeader, DayHeader, DsaBlock, SdBlock, MixedDay, BonusWatchBlock}

\* a line of output: what it says and the numbers it shows
Line(msg, args) == [msg |-> msg, args |-> args]
RECURSIVE TotalProblems(_)
TotalProblems(ds) ==
    IF ds = <<>> THEN 0 ELSE Len(Head(ds).dsa_problems) + TotalProblems(Tail(ds))
RECURSIVE TotalTasks(_)
TotalTasks(ds) ==
    IF ds = <<>> THEN 0 ELSE Len(Head(ds).system_design_tasks) + TotalTasks(Tail(ds))
\* the Days of a list of Weeks, in order
AllDays(ws) == Concat([k \in DOMAIN ws |-> ws[k].days])

\* lines 1554 and 1563-1569: the lines main prints
ParsedLine(ws) == Line("Parsed", <<Len(ws), Len(AllDays(ws))>>)
Summary(ws) ==
    <<Line("Generated elegant tracker", <<>>),
      Line("Total problems", <<TotalProblems(AllDays(ws))>>),
      Line("Total system design tasks", <<TotalTasks(AllDays(ws))>>),
      Line("Total weeks", <<Len(ws)>>),
      Line("Total days", <<Len(AllDays(ws))>>),
      Line("Success", <<>>),
      Line("Click Auto Sync", <<>>)>>

\* what Python does with an exception nothing catches: the traceback goes
\* to stderr and the exit status is 1
Traceback == <<"Traceback">>

InitMain ==
    /\ pc = "main"
    /\ sys_argv \in Strings({"plan.md"}, 2)
    /\ \/ md_file \in [state : {"missing", "unreadable"}, content : {<<>>}]
       \/ \E ps \in Strings(MainPieces, MaxMainPieces) :
              md_file = [state |-> "readable", content |-> Concat(ps)]
    /\ output_file \in [writable : BOOLEAN, written : {FALSE},
                        content : {generate_html(<<>>)}]
    /\ stdout = <<>> /\ stderr = <<>> /\ exit_status = 0
    /\ ParserIdle /\ SlugIdle /\ DifficultyIdle /\ DayIdle /\ PageIdle /\ RateIdle

\* main(): lines 1533-1569.  sys.argv[0], the name of the script, is left
\* out of sys_argv, so that the test of line 1537 is Len(sys_argv) # 1.
Main ==
    /\ pc = "main"
    /\ pc' = "exited"
    /\ IF Len(sys_argv) # 1
       THEN /\ stdout' = <<Line("Usage", <<>>), Line("Example", <<>>)>>
            /\ exit_status' = 1
            /\ UNCHANGED <<output_file, stderr>>
       ELSE IF md_file.state = "missing"
       THEN /\ stdout' = <<Line("Error: File not found", <<>>)>>
            /\ exit_status' = 1
            /\ UNCHANGED <<output_file, stderr>>
       ELSE IF md_file.state = "unreadable"
       THEN /\ stderr' = Traceback
            /\ exit_status' = 1
            /\ UNCHANGED <<output_file, stdout>>
       ELSE LET ws == ParsedWeeks(md_file.content) IN
            IF ~output_file.writable
            THEN /\ stdout' = <<ParsedLine(ws)>>
                 /\ stderr' = Traceback
                 /\ exit_status' = 1
                 /\ UNCHANGED output_file
            ELSE /\ output_file' = [output_file EXCEPT !.written = TRUE,
                                                       !.content = generate_html(ws)]
                 /\ stdout' = <<ParsedLine(ws)>> \o Summary(ws)
                 /\ exit_status' = 0
                 /\ UNCHANGED stderr
    /\ UNCHANGED <<sys_argv, md_file, parserVars, slugVars, difficultyVars, dayVars, pageVars>>

NextMain == Main
SpecMain == InitMain /\ [][NextMain]_vars


\* ---- the page in the browser ----
\* the pages: of a plan with one problem, and of a plan with a problem, a
\* plain task and a design task
SyncPlan == WeekHeader \o DayHeader \o DsaBlock
ViewPlan == WeekHeader \o MixedDay
\* the week sections and the items of the page the browser shows
Document == page.week_sections
Items == page.items

TokenKey == "github-token"
GistKey == "gist-id"
ProgressKey == "leetcode-tracker-progress"
\* a token the remote service accepts and one it rejects (revoked, mistyped)
GoodToken == "ghp_good"
BadToken == "ghp_bad"
Accepts(token) == token = GoodToken
\* the identifier the remote service gives its n-th document
GistIds == <<"gist-1", "gist-2", "gist-3", "gist-4", "gist-5">>
GistIdOf(n) == GistIds[n]
GistNumber(id) == CHOOSE n \in DOMAIN GistIds : GistIds[n] = id

Synced == "Synced"
SyncFailed == "Sync Failed"
Connected == "sync-status sync-connected"
Disconnected == "sync-status sync-disconnected"

\* a request that was sent and what awaits its answer: the async function,
\* what started it, and the token, the document and the data it was sent with
Request(call, from, method, token, id, data) ==
    [call |-> call, from |-> from, method |-> method, token |-> token,
     id |-> id, data |-> data]
\* the requests without the k-th
Without(reqs, k) == SubSeq(reqs, 1, k - 1) \o SubSeq(reqs, k + 1, Len(reqs))

\* setupAutoSync(): lines 1068-1084, a new interval timer each time
setupAutoSync ==
    /\ sync_status' = [className |-> Connected, innerHTML |-> Synced]
    /\ autoSyncInterval' = Cardinality(intervals) + 1
    /\ intervals' = intervals \cup {Cardinality(intervals) + 1}

\* syncProgress() up to its await: lines 1086-1099.  Without a token it
\* shows the modal; with one it sends the progress, to the document of
\* gistId or as a new document.  token and id are githubToken and gistId as
\* the call finds them, modal and pending the modal and the unanswered
\* requests as it finds them.
syncProgressStart(from, token, id, modal, pending) ==
    IF token = null
    THEN [modal_display |-> "block", inflight |-> pending]
    ELSE [modal_display |-> modal,
          inflight |-> Append(pending,
              Request("syncProgress", from, IF id # null THEN "PATCH" ELSE "POST",
                      token, id, getCurrentProgress(checked)))]

\* the script's first lines (981-983) and the DOMContentLoaded handler:
\* lines 986-993
DOMContentLoaded ==
    /\ pc = "loading"
    /\ pc' = "ready"
    /\ event' = "DOMContentLoaded"
    /\ checked' = IF hasItem(localStorage, ProgressKey)
                  THEN Restore(checked, JSONparse(localStorage[ProgressKey]))
                  ELSE checked
    /\ stats' = StatsOf(Document, Items, checked', active_tab)
    /\ IF githubToken # null
       THEN setupAutoSync
       ELSE UNCHANGED <<sync_status, autoSyncInterval, intervals>>
    /\ UNCHANGED <<page, display, week_hidden, active_tab, body_class, filters,
                   stats_timeouts, csv, modal_display, alerted, githubToken, gistId,
                   localStorage, inflight, gists, otherVars>>

\* the user reloads the page: the document is as the file has it again,
\* the timers and the unanswered requests of the page before are gone, the
\* script runs from its first lines (981-983) and the DOMContentLoaded
\* handler (lines 986-993) runs
Reload ==
    /\ pc = "ready"
    /\ event' = "reload"
    /\ githubToken' = getItem(localStorage, TokenKey)
    /\ gistId' = getItem(localStorage, GistKey)
    /\ checked' = IF hasItem(localStorage, ProgressKey)
                  THEN Restore([k \in DOMAIN checked |-> FALSE],
                               JSONparse(localStorage[ProgressKey]))
                  ELSE [k \in DOMAIN checked |-> FALSE]
    /\ display' = [k \in DOMAIN display |-> ""]
    /\ week_hidden' = [w \in DOMAIN week_hidden |-> FALSE]
    /\ active_tab' = "overview-tab" /\ body_class' = "content-overview"
    /\ filters' = NoFilters
    /\ stats' = StatsOf(Document, Items, checked', active_tab')
    /\ stats_timeouts' = 0
    /\ csv' = [header |-> <<>>, rows |-> <<>>]
    /\ modal_display' = "none" /\ alerted' = ""
    /\ inflight' = <<>>
    /\ IF githubToken' # null
       THEN /\ sync_status' = [className |-> Connected, innerHTML |-> Synced]
            /\ autoSyncInterval' = 1
            /\ intervals' = {1}
       ELSE /\ sync_status' = Offline
            /\ autoSyncInterval' = 0
            /\ intervals' = {}
    /\ UNCHANGED <<pc, page, localStorage, gists, otherVars>>

\* the change event of the k-th checkbox: the user has toggled it, then
\* lines 1416-1424 (and the onchange attribute) run
Change(k) ==
    /\ pc = "ready"
    /\ event' = "change"
    /\ checked' = [checked EXCEPT ![k] = ~checked[k]]
    /\ stats' = StatsOf(Document, Items, checked', active_tab)
    /\ localStorage' = setItem(localStorage, ProgressKey,
                               JSONstringify(getCurrentProgress(checked')))
    /\ UNCHANGED <<pc, page, display, week_hidden, active_tab, body_class, filters,
                   stats_timeouts, csv, syncVars, otherVars>>

\* a click on the sync button: syncProgress() up to its await
ClickSync ==
    /\ pc = "ready"
    /\ githubToken # null => Len(inflight) < MaxInFlight
    /\ event' = "click sync"
    /\ LET started == syncProgressStart("button", githubToken, gistId, modal_display, inflight)
       IN /\ modal_display' = started.modal_display
          /\ inflight' = started.inflight
    /\ UNCHANGED <<pc, page, domVars, sync_status, alerted, githubToken, gistId,
                   autoSyncInterval, intervals, gists, localStorage, otherVars>>

\* an interval timer fires: lines 1077-1083
IntervalFires(t) ==
    /\ pc = "ready"
    /\ t \in intervals
    /\ githubToken # null => Len(inflight) < MaxInFlight
    /\ event' = "interval"
    /\ LET started == syncProgressStart("timer", githubToken, gistId, modal_display, inflight)
       IN /\ modal_display' = started.modal_display
          /\ inflight' = started.inflight
    /\ UNCHANGED <<pc, page, domVars, sync_status, alerted, githubToken, gistId,
                   autoSyncInterval, intervals, gists, localStorage, otherVars>>

\* closeModal(): lines 1411-1413, by the close mark or the Cancel button
CloseModal ==
    /\ pc = "ready"
    /\ modal_display = "block"
    /\ event' = "close modal"
    /\ modal_display' = "none"
    /\ UNCHANGED <<pc, page, domVars, sync_status, alerted, githubToken, gistId,
                   autoSyncInterval, intervals, inflight, gists, localStorage,
                   otherVars>>

\* a click on Connect GitHub with the trimmed text of the token field:
\* setupSync() up to its await, lines 1120-1133
SetupSync(token) ==
    /\ pc = "ready"
    /\ modal_display = "block"
    /\ token # "" => Len(inflight) < MaxInFlight
    /\ event' = "click connect"
    /\ IF token = ""
       THEN /\ alerted' = "Please enter your GitHub token"
            /\ UNCHANGED inflight
       ELSE /\ inflight' = Append(inflight,
                   Request("setupSync", "modal", "GET", token, null,
                           getCurrentProgress(<<>>)))
            /\ UNCHANGED alerted
    /\ UNCHANGED <<pc, page, domVars, modal_display, sync_status, githubToken, gistId,
                   autoSyncInterval, intervals, gists, localStorage, otherVars>>

\* the answer to the request of a setupSync(): lines 1134-1145.  The
\* service answers ok to a token it accepts; the request can fail for any
\* token (no network).
UserAnswered(k, ok) ==
    /\ pc = "ready"
    /\ k \in DOMAIN inflight
    /\ inflight[k].call = "setupSync"
    /\ ok => Accepts(inflight[k].token)
    /\ ok => Cardinality(intervals) < MaxIntervals
    /\ IF ok
       THEN /\ event' = "connected"
            /\ githubToken' = inflight[k].token
            /\ localStorage' = setItem(localStorage, TokenKey, inflight[k].token)
            /\ setupAutoSync
            /\ LET started == syncProgressStart("setupSync", githubToken', gistId,
                                                "none", Without(inflight, k))
               IN /\ modal_display' = started.modal_display
                  /\ inflight' = started.inflight
            /\ UNCHANGED alerted
       ELSE /\ event' = "connect failed"
            /\ alerted' = "Failed to connect to GitHub. Please check your token."
            /\ inflight' = Without(inflight, k)
            /\ UNCHANGED <<githubToken, localStorage, modal_display, sync_status,
                           autoSyncInterval, intervals>>
    /\ UNCHANGED <<pc, page, domVars, gistId, gists, otherVars>>

\* the remote service has the document
HasGist(id) == id # null /\ GistNumber(id) \in DOMAIN gists
\* lines 1100-1111: the request of a syncProgress() was answered ok
SaveDone(k) ==
    LET r == inflight[k]
        text == JSONstringify(r.data)
    IN /\ Accepts(r.token)
       /\ r.method = "PATCH" => HasGist(r.id)
       /\ r.method = "POST" => Len(gists) < MaxGists
       /\ event' = "save done"
       /\ IF r.method = "POST"
          THEN /\ gists' = Append(gists, text)
               /\ gistId' = GistIdOf(Len(gists'))
               /\ localStorage' = setItem(setItem(localStorage, GistKey, gistId'),
                                          ProgressKey, text)
          ELSE /\ gists' = [gists EXCEPT ![GistNumber(r.id)] = text]
               /\ gistId' = gistId
               /\ localStorage' = setItem(localStorage, ProgressKey, text)
       /\ sync_status' = [sync_status EXCEPT !.innerHTML = Synced]
       /\ inflight' = Without(inflight, k)
\* a catch block that sends the request again
SaveFailedRetries(k, rejected) ==
    LET r == inflight[k] IN
    /\ rejected => (~Accepts(r.token) \/ (r.method = "PATCH" /\ ~HasGist(r.id)))
    /\ event' = IF rejected THEN "save rejected" ELSE "save failed"
    /\ sync_status' = [className |-> Disconnected, innerHTML |-> SyncFailed]
    /\ inflight' = Append(Without(inflight, k), r)
    /\ UNCHANGED <<gists, gistId, localStorage>>
\* lines 1113-1117: the request failed; rejected tells that the service
\* refused it (the token, or the document is gone), otherwise it got no
\* answer.  The catch block shows the failure and sends nothing.
SaveFailed(k, rejected) ==
    LET r == inflight[k] IN
    /\ rejected => (~Accepts(r.token) \/ (r.method = "PATCH" /\ ~HasGist(r.id)))
    /\ event' = IF rejected THEN "save rejected" ELSE "save failed"
    /\ sync_status' = [className |-> Disconnected, innerHTML |-> SyncFailed]
    /\ inflight' = Without(inflight, k)
    /\ UNCHANGED <<gists, gistId, localStorage>>

\* the answer to the request of a syncProgress()
SaveAnswered(k) ==
    /\ pc = "ready"
    /\ k \in DOMAIN inflight
    /\ inflight[k].call = "syncProgress"
    /\ \/ SaveDone(k)
       \/ \E rejected \in BOOLEAN : SaveFailed(k, rejected)
    /\ UNCHANGED <<pc, page, domVars, modal_display, alerted, githubToken,
                   autoSyncInterval, intervals, otherVars>>

\* localStorage.removeItem(key)
removeItem(storage, key) == [k \in DOMAIN storage \ {key} |-> storage[k]]
\* disconnectSync(): lines 1148-1166.  clearInterval stops the timer that
\* autoSyncInterval names.
DisconnectSync ==
    /\ pc = "ready"
    /\ event' = "disconnect"
    /\ githubToken' = null
    /\ gistId' = null
    /\ localStorage' = removeItem(removeItem(localStorage, TokenKey), GistKey)
    /\ intervals' = intervals \ {autoSyncInterval}
    /\ sync_status' = Offline
    /\ modal_display' = "none"
    /\ UNCHANGED <<pc, page, domVars, alerted, autoSyncInterval, inflight, gists,
                   otherVars>>

\* showTab(tabName): lines 996-1009 (the classes of the tab buttons are
\* left out); the call of updateStats is scheduled, not made
ShowTab(tabName) ==
    /\ pc = "ready"
    /\ stats_timeouts < MaxTimeouts
    /\ event' = "click tab"
    /\ active_tab' = tabName \o "-tab"
    /\ body_class' = "content-" \o tabName
    /\ stats_timeouts' = stats_timeouts + 1
    /\ UNCHANGED <<pc, page, checked, display, week_hidden, filters, stats, csv,
                   syncVars, localStorage, otherVars>>

\* the call of updateStats that showTab scheduled: line 1008
StatsTimeout ==
    /\ pc = "ready"
    /\ stats_timeouts > 0
    /\ event' = "timeout"
    /\ stats' = StatsOf(Document, Items, checked, active_tab)
    /\ stats_timeouts' = stats_timeouts - 1
    /\ UNCHANGED <<pc, page, checked, display, week_hidden, active_tab, body_class,
                   filters, csv, syncVars, localStorage, otherVars>>

\* the user has set the search box and the filter selects to f:
\* filterContent(), lines 1274-1324
FilterContent(f) ==
    /\ pc = "ready"
    /\ event' = "filter"
    /\ filters' = f
    /\ display' = FilteredDisplay(Document, Items, checked, display, f)
    /\ week_hidden' = FilteredHidden(Document, Items, checked, f)
    /\ UNCHANGED <<pc, page, checked, active_tab, body_class, stats, stats_timeouts,
                   csv, syncVars, localStorage, otherVars>>

\* a click on Export: exportToCSV(), lines 1354-1409
ExportToCSV ==
    /\ pc = "ready"
    /\ event' = "click export"
    /\ csv' = [header |-> CsvHeader, rows |-> ExportRows(Document, Items, checked)]
    /\ UNCHANGED <<pc, page, checked, display, week_hidden, active_tab, body_class,
                   filters, stats, stats_timeouts, syncVars, localStorage, otherVars>>

\* what local storage holds when the page is opened: a token or none, the
\* identifier of a document when there is a token, and the progress a visit
\* before has saved: the first m checkboxes, all checked
Blobs(n) == {JSONstringify(getCurrentProgress([k \in 1..m |-> TRUE])) : m \in 0..n}
Stored(token, id, progress) ==
    LET t == IF token = null THEN <<>> ELSE setItem(<<>>, TokenKey, token)
        g == IF id = null THEN t ELSE setItem(t, GistKey, id)
    IN IF progress = <<>> THEN g ELSE setItem(g, ProgressKey, progress[1])

\* ---- the page of a plan with one problem: progress and sync ----
InitSync ==
    /\ pc = "loading"
    /\ FreshDom(generate_html(ParsedWeeks(SyncPlan)).weeks_content)
    /\ \E token \in {null, GoodToken, BadToken} :
       \E id \in {null, GistIdOf(1)} :
       \E progress \in {<<>>} \cup {<<b>> : b \in Blobs(Len(checked))} :
          /\ token = null => id = null
          /\ localStorage = Stored(token, id, progress)
          /\ githubToken = token
          /\ gistId = id
          /\ IF id = null THEN gists = <<>>
             ELSE \E b \in Blobs(Len(checked)) : gists = <<b>>
    /\ ParserIdle /\ SlugIdle /\ DifficultyIdle /\ DayIdle /\ MainIdle /\ RateIdle

NextSync ==
    \/ DOMContentLoaded
    \/ \E k \in DOMAIN checked : k <= MaxToggled /\ Change(k)
    \/ ClickSync
    \/ \E t \in intervals : IntervalFires(t)
    \/ CloseModal
    \/ \E token \in {"", GoodToken, BadToken} : SetupSync(token)
    \/ \E k \in DOMAIN inflight : \E ok \in BOOLEAN : UserAnswered(k, ok)
    \/ \E k \in DOMAIN inflight : SaveAnswered(k)
    \/ Reload
SpecSync == InitSync /\ [][NextSync]_vars

\* ---- the same page when disconnectSync is called as well.  (The page
\* as generated never shows the Disconnect button: it stands in
\* #connected-info, which has display: none and which no script shows.) ----
NextDisconnect ==
    \/ DOMContentLoaded
    \/ ClickSync
    \/ \E t \in intervals : IntervalFires(t)
    \/ CloseModal
    \/ \E token \in {"", GoodToken, BadToken} : SetupSync(token)
    \/ \E k \in DOMAIN inflight : \E ok \in BOOLEAN : UserAnswered(k, ok)
    \/ \E k \in DOMAIN inflight : SaveAnswered(k)
    \/ DisconnectSync
SpecDisconnect == InitSync /\ [][NextDisconnect]_vars

\* ---- the page of a plan with a problem and two tasks: tabs, filters and
\* export ----
SearchTexts == {<<>>, <<"T","w","o">>}
\* the filters the user sets: one at a time, and the status filter together
\* with the week filter
FilterChoices ==
    {Filters(search, "", "", <<>>) : search \in SearchTexts}
    \cup {Filters(<<>>, d, "", <<>>) : d \in {"easy", "task"}}
    \cup {Filters(<<>>, "", st, w) : st \in {"", "completed", "pending"},
                                     w \in {<<>>, <<"1">>, <<"2">>}}
InitView ==
    /\ pc = "loading"
    /\ FreshDom(generate_html(ParsedWeeks(ViewPlan)).weeks_content)
    /\ localStorage = <<>>
    /\ githubToken = null /\ gistId = null
    /\ gists = <<>>
    /\ ParserIdle /\ SlugIdle /\ DifficultyIdle /\ DayIdle /\ MainIdle /\ RateIdle

NextView ==
    \/ DOMContentLoaded
    \/ \E k \in DOMAIN checked : k <= MaxToggled /\ Change(k)
    \/ \E tabName \in {"overview", "dsa", "system"} : ShowTab(tabName)
    \/ StatsTimeout
    \/ \E f \in FilterChoices : FilterContent(f)
    \/ ExportToCSV
SpecView == InitView /\ [][NextView]_vars

\* ---- updateStats applied to the counts of a tab: the completion rate ----
InitRate ==
    /\ pc = "counts"
    /\ totalDSA \in 0..MaxCounted
    /\ completedDSA \in 0..totalDSA
    /\ dsaRate = 0
    /\ ParserIdle /\ SlugIdle /\ DifficultyIdle /\ DayIdle /\ MainIdle /\ PageIdle

\* lines 1239-1242: the rate updateStats shows for the counts
UpdateRate ==
    /\ pc = "counts"
    /\ pc' = "rate"
    /\ dsaRate' = Rate(completedDSA, totalDSA)
    /\ UNCHANGED <<totalDSA, completedDSA, parserVars, slugVars, difficultyVars,
                   dayVars, mainVars, page, domVars, syncVars, localStorage, event>>

NextRate == UpdateRate
SpecRate == InitRate /\ [][NextRate]_vars

(***************************************************************************)
(* Claims                                                                  *)
(***************************************************************************)

\* the positions of the week-header markers and of the day-header markers
WeekMarkers(c) == {p \in 1..Len(c) : WeekMarkerEnd(c, p) > 0}
DayMarkers(c) == {p \in 1..Len(c) : DayMarkerEnd(c, p) > 0}
\* the day-header markers of the week segment that the week marker at p opens
DayMarkersOfWeek(c, p) ==
    {d \in DayMarkers(c) : d > p /\ \A q \in WeekMarkers(c) : q > p => d < q}
\* the marker at p is the k-th week marker
WeekIndex(c, p) == Cardinality({q \in WeekMarkers(c) : q <= p})
\* the Day numbers of a list of Weeks, in document order
DayNumbers(ws) ==
    Concat([k \in DOMAIN ws |-> [j \in DOMAIN ws[k].days |-> ws[k].days[j].number]])
RECURSIVE TotalDays(_)
TotalDays(ws) == IF ws = <<>> THEN 0 ELSE Len(Head(ws).days) + TotalDays(Tail(ws))

\* C1: the first parse() of a text with W week-header markers, whose k-th
\* week segment holds D_k day-header markers, returns exactly W Weeks in
\* document order; the k-th Week has number k and exactly D_k Days, and its
\* j-th Day has number (k-1)*7 + j.  Text before the first marker adds nothing.
C1_WeeksAndDaysMatchMarkers ==
    calls = 1 =>
        /\ Len(returned) = Cardinality(WeekMarkers(content))
        /\ \A p \in WeekMarkers(content) :
              LET k == WeekIndex(content, p) IN
              /\ returned[k].number = k
              /\ Len(returned[k].days) = Cardinality(DayMarkersOfWeek(content, p))
              /\ \A j \in DOMAIN returned[k].days :
                    returned[k].days[j].number = (k - 1) * 7 + j
\* a day header before the first week header, a week without days, and a
\* second week with one day
C1_Witness ==
    /\ calls = 1
    /\ content = DayHeader \o WeekHeader \o WeekHeader \o DayHeader
    /\ Len(returned) = 2
    /\ returned[1].days = <<>>
    /\ returned[2].days[1].number = 8

\* C2: the Day numbers parse() returns are pairwise distinct and strictly
\* increasing in document order, also when a week segment holds more than
\* seven day markers.
C2_DayNumbersStrictlyIncreasing ==
    calls = 1 =>
        \A i, j \in DOMAIN DayNumbers(returned) :
            i < j => DayNumbers(returned)[i] < DayNumbers(returned)[j]

\* C3: a week segment without a day-header marker produces no Week: every
\* Week parse() returns has at least one Day.
C3_NoWeekWithoutDays ==
    calls = 1 => \A k \in DOMAIN returned : returned[k].days # <<>>

\* the places of a day header that lacks the pattern, and the plan with the
\* header at p intact
BrokenHeaders(c) == {p \in 1..Len(c) : MatchAt(c, p, BrokenDayHeader)}
WithHeaderIntact(c, p) ==
    SubSeq(c, 1, p - 1) \o DayHeader \o SubSeq(c, p + Len(BrokenDayHeader), Len(c))

\* C4: when exactly one day header of a plan, inside a week segment, lacks
\* the day-header pattern, parse() returns (it raises nothing) and the total
\* number of Days is exactly one less than for the plan with that header
\* intact.
C4_BrokenHeaderLosesOneDay ==
    calls = 1 =>
        \A p \in BrokenHeaders(content) :
            (/\ Cardinality(BrokenHeaders(content)) = 1
             /\ \E q \in WeekMarkers(content) : q < p)
            => TotalDays(returned)
                 = TotalDays(ParsedWeeks(WithHeaderIntact(content, p))) - 1
\* a week whose second day header is broken: its text joins the first day
C4_Witness ==
    /\ calls = 1
    /\ content = WeekHeader \o DayHeader \o BrokenDayHeader \o DsaBlock
    /\ TotalDays(returned) = 1
    /\ Len(returned[1].days[1].dsa_problems) = 1

\* the line occurs, at the start of a line, in the body of the DSA block
HasLine(body, line) ==
    \E p \in 1..Len(body) : MatchAt(body, p, line) /\ (p = 1 \/ body[p - 1] = "\n")
InDsaBlock(c, line) ==
    /\ SectionSearch(c, DsaLabel, DsaTerm).found
    /\ HasLine(SectionSearch(c, DsaLabel, DsaTerm).body, line)
\* no goal label stands in the DSA block before the line
FirstGoalInDsaBlock(c, line) ==
    LET body == SectionSearch(c, DsaLabel, DsaTerm).body
        at == Min({p \in 1..Len(body) : MatchAt(body, p, line)})
    IN ~Contains(SubSeq(body, 1, at - 1), GoalWord)
\* a line without its bullet marker and its line break
ItemText(line) == SubSeq(line, Len(BulletLit) + 1, Len(line) - 1)

ReverseLinkedList == <<"R","e","v","e","r","s","e"," ","L","i","n","k","e","d"," ","L","i","s","t">>
ReverseLinkedListUrl == <<"h","t","t","p","s",":","/","/","l","e","e","t","c","o","d","e",".","c","o","m","/","p","r","o","b","l","e","m","s","/","r","e","v","e","r","s","e","-","l","i","n","k","e","d","-","l","i","s","t","/">>

C6_SetsBeforeThresholds ==
    pc = "guessed" =>
        /\ problem_num \in easy_problems => difficulty = "easy"
        /\ problem_num \in hard_problems => difficulty = "hard"
        /\ problem_num \notin easy_problems \cup hard_problems =>
               difficulty = IF problem_num < EasyBelow THEN "easy"
                            ELSE IF problem_num > HardAbove THEN "hard"
                            ELSE "medium"

\* C7: _title_to_slug is total and idempotent: it returns a string for every
\* title, and applied to its own result it returns that result.
C7_SlugIdempotent ==
    /\ pc \in {"slug", "reslug"} => slug \in Seq(TitleChars \cup WordChars)
    /\ pc = "reslug" => reslug = slug
\* a title the slug function changes (case, punctuation, a separator run and
\* a hyphen to trim), slugged twice
C7_Witness ==
    /\ pc = "reslug"
    /\ title = <<"A", " ", "-", "!">>
    /\ slug = <<"a">>

NoAdjacentHyphens(s) == \A i \in 1..(Len(s) - 1) : ~(s[i] = "-" /\ s[i + 1] = "-")
NoOuterHyphen(s) == s = <<>> \/ (s[1] # "-" /\ s[Len(s)] # "-")

\* C8 as stated: the slug contains only lowercase letters, digits and
\* hyphens, never two adjacent hyphens, and neither starts nor ends with a
\* hyphen.
C8_OnlyLowerDigitHyphen ==
    pc \in {"slug", "reslug"} =>
        /\ \A i \in DOMAIN slug : slug[i] \in Range(LowerLetters) \cup Digits \cup {"-"}
        /\ NoAdjacentHyphens(slug)
        /\ NoOuterHyphen(slug)
\* C8 amended: the slug contains only word characters that are not upper
\* case (lowercase letters, digits, underscores) and hyphens, never
\* whitespace, never two adjacent hyphens, and neither starts nor ends with
\* a hyphen.
C8_OnlyWordCharsAndSingleHyphens ==
    pc \in {"slug", "reslug"} =>
        /\ \A i \in DOMAIN slug :
               slug[i] \in (WordChars \ Range(UpperLetters)) \cup {"-"}
        /\ NoAdjacentHyphens(slug)
        /\ NoOuterHyphen(slug)
\* a title with an underscore, an inner run of separators and punctuation
C8_Witness ==
    /\ pc = "slug"
    /\ title = <<"_", " ", "-", "A">>
    /\ slug = <<"_", "-", "a">>

\* C9: a bulleted DSA line that holds only a goal label ("* PIN Goal: text"
\* or "* TARGET Goal: text"), the first goal label of its block, sets
\* dsa_goal to the text and adds no entry to dsa_problems.
C9_GoalLineSetsGoalAddsNoProblem ==
    pc = "day" =>
        \A line \in {PinGoalLine, TargetGoalLine} :
            (/\ InDsaBlock(day_content, line)
             /\ FirstGoalInDsaBlock(day_content, line))
            => /\ day.dsa_goal = SubSeq(ItemText(line), 9, Len(ItemText(line)))
               /\ \A k \in DOMAIN day.dsa_problems :
                     day.dsa_problems[k].title # ItemText(line)

TwoSum == <<"T","w","o"," ","S","u","m">>
WarmUp == <<"W","a","r","m"," ","u","p">>

\* C10: the line "* LC 1: Two Sum PIN Goal: Warm up" yields a Problem with
\* the title "Two Sum", and the goal text stands in dsa_goal only, in no
\* Problem's title.
C10_GoalPartRemovedFromItem ==
    (pc = "day" /\ InDsaBlock(day_content, LcGoalLine)) =>
        /\ \E k \in DOMAIN day.dsa_problems :
              /\ day.dsa_problems[k].number = <<"1">>
              /\ day.dsa_problems[k].title = TwoSum
        /\ \A k \in DOMAIN day.dsa_problems :
              ~Contains(day.dsa_problems[k].title, WarmUp)
        /\ FirstGoalInDsaBlock(day_content, LcGoalLine) => day.dsa_goal = WarmUp

\* the places where a bulleted line starts in the body of a block, and the
\* text of the bulleted line at p after its bullet marker
BulletedLines(body) ==
    {p \in 1..Len(body) : MatchAt(body, p, BulletLit) /\ (p = 1 \/ body[p - 1] = "\n")}
BulletedText(body, p) == SubSeq(body, p + Len(BulletLit), LineEnd(body, p) - 1)
BulletedIndex(body, p) == Cardinality({q \in BulletedLines(body) : q <= p})

\* C11: every bulleted line of a SYSTEM DESIGN block yields one Task, in
\* order: its description is the whole text after the bullet marker, and
\* is_bonus is true exactly when that text starts with "Bonus:".
C11_BulletedLineYieldsTask ==
    (pc = "day" /\ SectionSearch(day_content, SdLabel, SdTerm).found) =>
        LET body == SectionSearch(day_content, SdLabel, SdTerm).body IN
        /\ Len(day.system_design_tasks) = Cardinality(BulletedLines(body))
        /\ \A p \in BulletedLines(body) :
              LET task == day.system_design_tasks[BulletedIndex(body, p)] IN
              /\ task.description = BulletedText(body, p)
              /\ task.is_bonus <=> MatchAt(BulletedText(body, p), 1, BonusLit)
\* a block with a bonus task and a task that names the prefix later on
C11_Witness ==
    /\ pc = "day"
    /\ day_content = SdHeaderLine \o BonusLine \o LateBonusLine
    /\ day.system_design_tasks =
           <<Task(ItemText(BonusLine), TRUE), Task(ItemText(LateBonusLine), FALSE)>>

\* the items of a day section, of a week section and of the generated
\* content, in document order; each item holds one checkbox input
ItemsOfDay(ds) == Concat([k \in DOMAIN ds.sections |-> ds.sections[k].items])
ItemsOfWeek(ws) == Concat([k \in DOMAIN ws.days |-> ItemsOfDay(ws.days[k])])
ItemsOfContent(wc) == Concat([k \in DOMAIN wc |-> ItemsOfWeek(wc[k])])
CheckboxCount(h) ==
    Cardinality({k \in DOMAIN ItemsOfContent(h.weeks_content) :
                    ItemsOfContent(h.weeks_content)[k].input.type = "checkbox"})
\* the run of main wrote the tracker
Written == pc = "exited" /\ output_file.written
ParsedPlan == ParsedWeeks(md_file.content)
ParsedItems == TotalProblems(AllDays(ParsedPlan)) + TotalTasks(AllDays(ParsedPlan))

\* C12 as stated: the generated content of generate_html's output holds
\* exactly as many checkbox inputs as the plan has Problems and Tasks.
C12_OneCheckboxPerItem ==
    Written => CheckboxCount(output_file.content) = ParsedItems
\* C12 amended: the generated content holds exactly two checkbox inputs for
\* each Problem and each Task of the plan (one in the combined view, one in
\* the view of its own category).
C12_TwoCheckboxesPerItem ==
    Written => CheckboxCount(output_file.content) = 2 * ParsedItems
\* a plan with one Problem and two Tasks
C12_Witness ==
    /\ Written
    /\ md_file.content = WeekHeader \o DayHeader \o DsaBlock \o SdBlock
    /\ ParsedItems = 3
    /\ CheckboxCount(output_file.content) = 6

\* C13: main exits with status 1 after a message for the user, without
\* writing the output file, when the argument count is not one or the input
\* file is missing or unreadable; in every other case it writes
\* leetcode_tracker.html, prints the summary and exits with status 0.
C13_ExitStatusAndOutput ==
    pc = "exited" =>
        IF Len(sys_argv) # 1 \/ md_file.state \in {"missing", "unreadable"}
        THEN /\ exit_status = 1
             /\ stdout # <<>>
             /\ stderr = <<>>
             /\ ~output_file.written
        ELSE /\ exit_status = 0
             /\ output_file.written
             /\ stdout = <<ParsedLine(ParsedPlan)>> \o Summary(ParsedPlan)

\* the item shows the Problem, or the Task
ListsProblem(item, problem) ==
    IF problem.number # <<>>
    THEN /\ item.text = LcPrefix \o problem.number \o ColonSpace \o problem.title
         /\ item.href = problem.url
    ELSE item.text = problem.title
ListsTask(item, task) == item.text = task.description
\* the items list the entries one to one, in order
ListsProblems(items, problems) ==
    /\ Len(items) = Len(problems)
    /\ \A k \in DOMAIN items : ListsProblem(items[k], problems[k])
ListsTasks(items, tasks) ==
    /\ Len(items) = Len(tasks)
    /\ \A k \in DOMAIN items : ListsTask(items[k], tasks[k])
\* the sections of a day section whose class names the category
SectionsOf(ds, category) ==
    SelectSeq(ds.sections, LAMBDA sec : category \in sec.class)

\* C20: generate_html emits one week section per Week, in parse order, with
\* the Week's number, and three day sections per Day (combined, DSA only,
\* system design only); the combined and the DSA-only view each list every
\* Problem of the Day once, the combined and the system-design-only view
\* each list every Task once, in source order.
C20_WeeksAndThreeViewsPerDay ==
    Written =>
        LET wc == output_file.content.weeks_content IN
        /\ Len(wc) = Len(ParsedPlan)
        /\ \A k \in DOMAIN wc :
              /\ wc[k].data_week = ToStr(ParsedPlan[k].number)
              /\ Len(wc[k].days) = 3 * Len(ParsedPlan[k].days)
              /\ \A j \in DOMAIN ParsedPlan[k].days :
                    LET d == ParsedPlan[k].days[j]
                        combined == wc[k].days[3 * j - 2]
                        dsa_only == wc[k].days[3 * j - 1]
                        system_only == wc[k].days[3 * j]
                    IN /\ "overview-content" \in combined.class
                       /\ "dsa-content" \in dsa_only.class
                       /\ "system-content" \in system_only.class
                       /\ ListsProblems(ItemsOfDay(dsa_only), d.dsa_problems)
                       /\ ListsTasks(ItemsOfDay(system_only), d.system_design_tasks)
                       /\ Len(SectionsOf(combined, "dsa-section")) = 1
                       /\ Len(SectionsOf(combined, "system-section")) = 1
                       /\ Len(combined.sections) = 2
                       /\ ListsProblems(SectionsOf(combined, "dsa-section")[1].items,
                                        d.dsa_problems)
                       /\ ListsTasks(SectionsOf(combined, "system-section")[1].items,
                                     d.system_design_tasks)
\* two weeks; the first has a day with a problem, a plain task and a design
\* task, the second a day without entries
C20_Witness ==
    /\ Written
    /\ md_file.content = WeekHeader \o MixedDay \o WeekHeader \o DayHeader
    /\ Len(output_file.content.weeks_content) = 2
    /\ Len(ItemsOfDay(output_file.content.weeks_content[1].days[1])) = 3
    /\ output_file.content.weeks_content[2].data_week = <<"2">>

\* the checkboxes of a page that was just opened: none is checked
Unchecked == [k \in DOMAIN checked |-> FALSE]
\* the progress the document of gistId holds at the remote service
RemoteProgress == JSONparse(gists[GistNumber(gistId)])
\* a request that reads the remote document is awaiting its answer
ReadInFlight == \E k \in DOMAIN inflight : inflight[k].call = "loadFromGist"

\* C14: when the page was initialised, the checkboxes are restored from the
\* remote document if a token and a document id are stored and the service
\* answers the read (or that read is still awaited), and from the copy in
\* local storage otherwise.
C14_RestoredFromRemoteElseLocal ==
    event = "DOMContentLoaded" =>
        IF githubToken # null /\ gistId # null /\ Accepts(githubToken) /\ HasGist(gistId)
        THEN ReadInFlight \/ checked = Restore(Unchecked, RemoteProgress)
        ELSE checked = IF hasItem(localStorage, ProgressKey)
                       THEN Restore(Unchecked, JSONparse(localStorage[ProgressKey]))
                       ELSE Unchecked

\* C15: after every change event of a checkbox, local storage holds the
\* current progress blob and, when a token is configured, a remote save of
\* that blob has been sent.
C15_ChangeSavesLocallyAndRemotely ==
    event = "change" =>
        /\ getItem(localStorage, ProgressKey) = JSONstringify(getCurrentProgress(checked))
        /\ githubToken # null =>
               \E k \in DOMAIN inflight :
                   /\ inflight[k].call = "syncProgress"
                   /\ inflight[k].data = getCurrentProgress(checked)

\* C16: whatever the interleaving of the syncProgress calls of a user, the
\* remote service holds at most one document of theirs, and once an
\* identifier is stored it names that document.
C16_AtMostOneGist ==
    /\ Len(gists) <= 1
    /\ (gistId # null /\ gists # <<>>) => gistId = GistIdOf(1)

\* the class of the day sections the active tab shows: lines 594-604
ShownView ==
    IF body_class = "content-overview" THEN "overview-content"
    ELSE IF body_class = "content-dsa" THEN "dsa-content"
    ELSE "system-content"
\* the k-th item is visible under the active tab and the filters
Visible(k) ==
    /\ InView(Document, Items[k], ShownView)
    /\ ~week_hidden[Items[k].week]
    /\ display[k] # "none"
\* C17: after a click on Export the rows after the header row are the rows
\* of the items that are visible under the active tab and the filters: one
\* row for each, and none for a hidden item.
C17_ExportsVisibleRows ==
    event = "click export" =>
        /\ csv.header = CsvHeader
        /\ Len(csv.rows) = Cardinality({k \in DOMAIN Items : Visible(k)})
        /\ {csv.rows[n] : n \in DOMAIN csv.rows}
               = {CsvRow(Document, Items[k], checked[k]) : k \in {j \in DOMAIN Items : Visible(j)}}

\* C18: when a sync was attempted without a token, and when the service
\* has refused the save of a sync for its stored token, the credential
\* modal is shown.
C18_PromptedForCredential ==
    /\ (event \in {"click sync", "interval"} /\ githubToken = null)
           => modal_display = "block"
    /\ (event = "save rejected" /\ githubToken # null /\ ~Accepts(githubToken))
           => modal_display = "block"

\* the events of an explicit action of the user
UserActions == {"click sync", "click connect", "connected"}
\* C19 (as stated): once a save has failed, a step that sends a request is
\* an explicit action of the user.
C19_NoAutomaticAttemptAfterFailure ==
    [][(sync_status.innerHTML = SyncFailed /\ Len(inflight') > Len(inflight))
           => event' \in UserActions]_vars
\* C19: a save is a single attempt: the step that handles the failure of a
\* save takes that request from the awaited ones and sends none; the next
\* attempt is a new call of syncProgress, by the interval timer or by the
\* user.
C19_FailedSaveIsNotRetried ==
    [][/\ event' \in {"save rejected", "save failed"}
           => \E k \in DOMAIN inflight :
                  inflight' = SubSeq(inflight, 1, k - 1)
                                  \o SubSeq(inflight, k + 1, Len(inflight))
       /\ Len(inflight') > Len(inflight)
           => event' \in UserActions \cup {"interval"}]_vars
\* the interval timer has sent a save while the page shows the failure of
\* an earlier one
C19_Witness ==
    /\ event = "interval"
    /\ sync_status.innerHTML = SyncFailed
    /\ inflight # <<>>
    /\ inflight[Len(inflight)].from = "timer"

\* the texts of the bulleted lines of a block, in the order of the lines
BulletedSeq(body) ==
    [n \in 1..Cardinality(BulletedLines(body)) |->
        BulletedText(body, CHOOSE p \in BulletedLines(body) : BulletedIndex(body, p) = n)]
\* the text of its line a Problem was made of: "LC <number>: <title>", or
\* the title of a free-text item
ProblemSource(p) ==
    IF p.number # <<>> THEN LcLit \o p.number \o <<":", " ">> \o p.title ELSE p.title
\* the sources from the k-th on begin, one each and in order, lines from
\* the n-th on
RECURSIVE InLineOrder(_, _, _, _)
InLineOrder(sources, k, lines, n) ==
    IF k > Len(sources) THEN TRUE
    ELSE IF n > Len(lines) THEN FALSE
    ELSE IF MatchAt(lines[n], 1, sources[k])
         THEN InLineOrder(sources, k + 1, lines, n + 1)
         ELSE InLineOrder(sources, k, lines, n + 1)

\* C21: the Problems and the Tasks of a Day stand in the order of the
\* bulleted lines of their block: each item is made of a bulleted line of
\* its own block, a later item of a later line; without the block there
\* is no item.
C21_ItemsKeepSourceOrder ==
    pc = "day" =>
        LET dsa == SectionSearch(day_content, DsaLabel, DsaTerm)
            sd == SectionSearch(day_content, SdLabel, SdTerm)
        IN /\ IF dsa.found
              THEN InLineOrder([k \in DOMAIN day.dsa_problems |->
                                   ProblemSource(day.dsa_problems[k])],
                               1, BulletedSeq(dsa.body), 1)
              ELSE day.dsa_problems = <<>>
           /\ IF sd.found
              THEN InLineOrder([k \in DOMAIN day.system_design_tasks |->
                                   day.system_design_tasks[k].description],
                               1, BulletedSeq(sd.body), 1)
              ELSE day.system_design_tasks = <<>>
\* a DSA block of two different lines that both yield a Problem
C21_Witness ==
    /\ pc = "day"
    /\ day_content = DsaHeaderLine \o TaskLine \o Lc42Line
    /\ Len(day.dsa_problems) = 2
    /\ day.dsa_problems[1].title = ItemText(TaskLine)
    /\ day.dsa_problems[2].number = <<"4", "2">>

\* the rest of the week-header line after "## WEEK <n>:"
HeaderRemainder(c) == SubSeq(c, Len(WeekMarker) + 1, LineEnd(c, 1) - 1)
\* the title a remainder spells: of "title (range)" the text before the
\* first "(", trimmed; otherwise the trimmed remainder
TitleOfRemainder(remainder) ==
    LET t == StripSpace(remainder)
        opens == {k \in DOMAIN t : t[k] = "("}
        before == IF opens = {} THEN <<>> ELSE StripSpace(SubSeq(t, 1, Min(opens) - 1))
    IN IF before # <<>> THEN before ELSE t
\* C22: the title of a Week is taken from its header line only: the text
\* after "## WEEK <n>:" up to the first "(", trimmed, for a line of the
\* form "title (range)", and the whole trimmed rest of that line otherwise,
\* also when that rest is empty.
C22_TitleFromHeaderLine ==
    (pc = "parser" /\ calls > 0) =>
        weeks[1].title = TitleOfRemainder(HeaderRemainder(content))

\* C23: a reload of the page restores every checkbox to the checked state
\* it had before the reload, which is the state after the last edit.
C23_ReloadRestoresLastEdit ==
    [][event' = "reload" => checked' = checked]_vars

\* C24: whenever the sync status element shows "Synced", its class is
\* sync-connected: a successful save after a failed one returns the
\* element to the connected state.
C24_SyncedIsConnected ==
    sync_status.innerHTML = Synced => sync_status.className = Connected

\* neither the script's variables nor local storage hold a token or the
\* identifier of a document
NoCredentials ==
    /\ githubToken = null /\ gistId = null
    /\ ~hasItem(localStorage, TokenKey) /\ ~hasItem(localStorage, GistKey)
\* C25: once disconnectSync has run, the token and the document identifier
\* stay absent from the script's variables and from local storage in every
\* step, also the answer to a syncProgress that was in flight, until a
\* setupSync completes.
C25_StaysDisconnected ==
    [][(NoCredentials /\ event' # "connected") => NoCredentials']_vars

\* the items that list the Tasks carry data-type "bonus" exactly for the
\* Tasks with is_bonus
BonusMarked(items, tasks) ==
    \A n \in DOMAIN tasks :
        n \in DOMAIN items =>
            (items[n].input.data_type = "bonus" <=> tasks[n].is_bonus)
\* C28: in the written page every Task with is_bonus is rendered with
\* data-type "bonus", in the combined and in the system-design-only view,
\* and every item with data-type "bonus" renders a Task with is_bonus.
C28_BonusIffDataTypeBonus ==
    Written =>
        LET wc == output_file.content.weeks_content IN
        \A k \in DOMAIN ParsedPlan :
            \A j \in DOMAIN ParsedPlan[k].days :
                LET tasks == ParsedPlan[k].days[j].system_design_tasks IN
                /\ BonusMarked(ItemsOfDay(wc[k].days[3 * j]), tasks)
                /\ BonusMarked(SectionsOf(wc[k].days[3 * j - 2], "system-section")[1].items,
                               tasks)

\* the a-th and the b-th item render the same Problem or Task of the same
\* Day in two views: the three day sections of a Day follow each other
Twins(a, b) ==
    /\ Items[a].week = Items[b].week
    /\ (Items[a].day - 1) \div 3 = (Items[b].day - 1) \div 3
    /\ Items[a].day # Items[b].day
    /\ Items[a].item = Items[b].item
\* C26: the two checkboxes rendered for the same Problem or Task always
\* hold the same checked state.
C26_TwinCheckboxesAgree ==
    pc = "ready" =>
        \A a, b \in DOMAIN Items : Twins(a, b) => checked[a] = checked[b]

\* C29: a further call of parse() returns the sequence of Weeks the call
\* before returned.
C29_ParseRepeatable ==
    [][calls >= 1 => returned' = returned]_vars

\* C27: the completion rate updateStats shows is an integer from 0 to 100;
\* it is 0 when nothing is counted, 100 only when every counted item is
\* checked, and 0 only when no counted item is checked.
C27_RateBounds ==
    pc = "rate" =>
        /\ dsaRate \in 0..100
        /\ totalDSA = 0 => dsaRate = 0
        /\ dsaRate = 100 => completedDSA = totalDSA
        /\ dsaRate = 0 => completedDSA = 0

====
